---- MODULE Spec2Model ----
(***************************************************************************)
(* Decision core of the options-trading bot (backend/*_v2.py):             *)
(*   CooldownManager, ExitLogic, EntryLogic, ConfidenceCalculator,          *)
(*   MarketRegimeDetector.                                                  *)
(*                                                                         *)
(* Numbers that are floats in the source are fixed-point integers here:    *)
(* prices, MACD histogram values, confidence points and percentages are    *)
(* all counted in hundredths (65.0 points = 6500, 0.5 = 50, 0.15 % = 15).   *)
(* An Optional[...] argument is <<>> for None and <<v>> for the value v;    *)
(* an optional enum is the string "None" or the member's name.              *)
(***************************************************************************)
EXTENDS Integers, Sequences, FiniteSets, TLC

VARIABLES
    \* CooldownManager fields (cooldown_v2.py:28-30)
    cooldown_duration, remaining, reason,
    \* history of the CooldownManager: the effective duration of the last
    \* activate() not followed by reset() (<<>> when there is none), and the
    \* number of advance() calls since then
    armed, advanced,
    \* one call of a pure operation: its position, arguments and result, and
    \* the result of the call before it
    pc, args, ret, prev,
    \* the position tracked by the per-candle loop
    pos

cdVars   == <<cooldown_duration, remaining, reason, armed, advanced>>
callVars == <<pc, args, ret, prev>>
vars     == <<cooldown_duration, remaining, reason, armed, advanced,
              pc, args, ret, prev, pos>>

None == <<>>
Some(v) == <<v>>
Val(o) == o[1]
Opt(S) == {None} \cup {Some(v) : v \in S}

Max(a, b) == IF a >= b THEN a ELSE b
Min(a, b) == IF a <= b THEN a ELSE b
Abs(a) == IF a < 0 THEN -a ELSE a

\* the variables a specification does not use stay at these values
NoCooldown == /\ cooldown_duration = 0 /\ remaining = 0 /\ reason = "None"
              /\ armed = None /\ advanced = 0
NoCall     == pc = "idle" /\ args = None /\ ret = None /\ prev = None
NoPosition == pos = None

(***************************************************************************)
(* CooldownManager (cooldown_v2.py)                                        *)
(***************************************************************************)
MaxDuration == 3
Durations == -1 .. MaxDuration

\* __init__(cooldown_candles): any integer is accepted
CooldownInit ==
    /\ cooldown_duration \in Durations
    /\ remaining = 0
    /\ reason = "None"
    /\ armed = None
    /\ advanced = 0

reset ==
    /\ remaining' = 0
    /\ reason' = "None"
    /\ armed' = None
    /\ advanced' = 0
    /\ UNCHANGED cooldown_duration

\* remaining after activate() with the given duration
activate_remaining(duration) == Max(0, duration)

\* activate(reason=EXIT, cooldown_candles=cc); CooldownReason has one member
activate(cc) ==
    LET duration == IF cc = None THEN cooldown_duration ELSE Val(cc) IN
    /\ remaining' = activate_remaining(duration)
    /\ reason' = "EXIT"
    /\ armed' = Some(duration)
    /\ advanced' = 0
    /\ UNCHANGED cooldown_duration

\* remaining after one advance()
advance_remaining_off_by_one(r) == IF r > 1 THEN r - 1 ELSE r
advance_remaining(r) == IF r > 0 THEN r - 1 ELSE r

advance ==
    /\ remaining' = advance_remaining(remaining)
    /\ reason' = IF remaining > 0 /\ remaining - 1 <= 0 THEN "None" ELSE reason
    /\ advanced' = IF advanced > MaxDuration THEN advanced ELSE advanced + 1
    /\ UNCHANGED <<cooldown_duration, armed>>

can_enter == remaining <= 0

get_state == [active |-> remaining > 0,
              candles_remaining |-> remaining,
              reason |-> reason]

\* C1 (as stated): after activate() with duration d and no further
\* activate()/reset(), can_enter() is False before any advance() and after
\* each of the first d-1 advances, True after the d-th and every later one,
\* and the state counts down ACTIVE(d), ACTIVE(d-1), ..., INACTIVE.
C1_CountdownAsStated ==
    armed # None =>
        LET d == Val(armed) IN
        /\ (advanced = 0 => ~can_enter)
        /\ (advanced >= 1 /\ advanced <= d - 1 => ~can_enter)
        /\ (advanced >= 1 /\ advanced >= d => can_enter)
        /\ (advanced < d => get_state.active
                            /\ get_state.candles_remaining = d - advanced)
        /\ (advanced >= 1 /\ advanced >= d => ~get_state.active
                            /\ get_state.candles_remaining = 0)

\* C1 (amended): for d >= 1 the countdown is as stated: can_enter() is False
\* and the state is ACTIVE(d - k) with reason EXIT after k < d advances, and
\* can_enter() is True and the state is INACTIVE with no reason after d or
\* more advances; for d <= 0 activate() arms nothing: remaining is 0 and
\* can_enter() is True at once.
C1_Countdown ==
    armed # None =>
        LET d == Val(armed) IN
        /\ (d >= 1 /\ advanced < d =>
               /\ ~can_enter
               /\ get_state = [active |-> TRUE,
                               candles_remaining |-> d - advanced,
                               reason |-> "EXIT"])
        /\ (d >= 1 /\ advanced >= d =>
               /\ can_enter
               /\ get_state = [active |-> FALSE,
                               candles_remaining |-> 0,
                               reason |-> "None"])
        /\ (d <= 0 => can_enter /\ get_state.candles_remaining = 0)

\* a cooldown of at least two candles that has just run out
C1_Witness ==
    /\ armed # None
    /\ Val(armed) >= 2
    /\ advanced = Val(armed)
    /\ can_enter

\* C9: get_state() always has candles_remaining >= 0, active equal to
\* candles_remaining > 0, and a reason exactly when it is active.
C9_WellFormed ==
    /\ get_state.candles_remaining >= 0
    /\ get_state.active = (get_state.candles_remaining > 0)
    /\ (get_state.reason # "None") = get_state.active


Init == CooldownInit /\ NoCall /\ NoPosition

Next ==
    \/ reset /\ UNCHANGED <<callVars, pos>>
    \/ \E cc \in Opt(Durations) : activate(cc) /\ UNCHANGED <<callVars, pos>>
    \/ advance /\ UNCHANGED <<callVars, pos>>

Spec == Init /\ [][Next]_vars

(***************************************************************************)
(* ExitLogic (exit_logic_v2.py)                                            *)
(***************************************************************************)
\* datetime.time as <<hour, minute>>; time(hour=15, minute=20)
EOD_CUTOFF == <<15, 20>>

\* a >= b on datetime.time values
time_ge(a, b) == a[1] > b[1] \/ (a[1] = b[1] /\ a[2] >= b[2])

\* str.upper() on the position type strings the model feeds in
upper(s) ==
    CASE s = "ce" -> "CE"
      [] s = "pe" -> "PE"
      [] s = "Ce" -> "CE"
      [] OTHER -> s

ExitSignal(should_exit, why) == [should_exit |-> should_exit, reason |-> why]

\* ltp = float(current_option_ltp or 0.0)
exit_ltp(a) ==
    IF a.current_option_ltp = None \/ Val(a.current_option_ltp) = 0
    THEN 0
    ELSE Val(a.current_option_ltp)

\* 1) hard stop loss
sl_hit_strict(a) ==
    a.hard_sl # None /\ exit_ltp(a) > 0 /\ exit_ltp(a) < Val(a.hard_sl)
sl_hit(a) ==
    a.hard_sl # None /\ exit_ltp(a) > 0 /\ exit_ltp(a) <= Val(a.hard_sl)

\* 2) trailing stop loss
tsl_hit(a) ==
    a.trailing_sl # None /\ exit_ltp(a) > 0 /\ exit_ltp(a) <= Val(a.trailing_sl)

\* 3) confidence-based exit
confidence_drop(a) == a.runtime_confidence <= a.min_runtime_confidence

\* 4) SuperTrend reversal against the position
st_reversal_any_flip(a) ==
    /\ a.st_direction # None
    /\ a.prev_st_direction # None
    /\ Val(a.st_direction) # Val(a.prev_st_direction)
st_reversal(a) ==
    /\ a.st_direction # None
    /\ a.prev_st_direction # None
    /\ Val(a.st_direction) # Val(a.prev_st_direction)
    /\ LET pt == upper(IF a.position_type = None THEN "" ELSE Val(a.position_type))
       IN  \/ pt = "CE" /\ Val(a.prev_st_direction) = 1 /\ Val(a.st_direction) = -1
           \/ pt = "PE" /\ Val(a.prev_st_direction) = -1 /\ Val(a.st_direction) = 1

\* 5) time-based safety exit
eod_exit(a) == ~a.bypass_eod_exit /\ time_ge(a.current_time_ist, EOD_CUTOFF)

check_exit(a) ==
    IF ~a.is_open_position THEN ExitSignal(FALSE, "None")
    ELSE IF sl_hit(a) THEN ExitSignal(TRUE, "SL_HIT")
    ELSE IF tsl_hit(a) THEN ExitSignal(TRUE, "TSL_HIT")
    ELSE IF confidence_drop(a) THEN ExitSignal(TRUE, "CONFIDENCE_DROP")
    ELSE IF st_reversal(a) THEN ExitSignal(TRUE, "ST_REVERSAL")
    ELSE IF eod_exit(a) THEN ExitSignal(TRUE, "EOD_EXIT")
    ELSE ExitSignal(FALSE, "None")

\* min_runtime_confidence: float = 40.0
DEFAULT_MIN_RUNTIME_CONFIDENCE == 4000

ExitArgs ==
    [is_open_position : BOOLEAN,
     current_option_ltp : Opt({0, 9500, 10000, 10500, 11500}),
     hard_sl : Opt({10000}),
     trailing_sl : Opt({11000}),
     runtime_confidence : {3990, 4000, 4010},
     min_runtime_confidence : {DEFAULT_MIN_RUNTIME_CONFIDENCE, 4010},
     st_direction : Opt({-1, 1}),
     prev_st_direction : Opt({-1, 1}),
     position_type : Opt({"CE", "PE", "ce", ""}),
     current_time_ist : {<<15, 19>>, <<15, 20>>, <<16, 0>>},
     bypass_eod_exit : BOOLEAN]

ExitInit ==
    /\ pc = "call"
    /\ args \in ExitArgs
    /\ ret = None
    /\ prev = None
    /\ NoCooldown
    /\ NoPosition

CheckExit ==
    /\ pc = "call"
    /\ pc' = "done"
    /\ ret' = check_exit(args)
    /\ UNCHANGED <<args, prev, cdVars, pos>>

SpecExit == ExitInit /\ [][CheckExit]_vars

\* the claims' reading of the inputs of check_exit
C2_LTP == IF args.current_option_ltp = None THEN 0 ELSE Val(args.current_option_ltp)
C2_HardStop == args.hard_sl # None /\ 0 < C2_LTP /\ C2_LTP <= Val(args.hard_sl)
C2_TrailingStop ==
    args.trailing_sl # None /\ 0 < C2_LTP /\ C2_LTP <= Val(args.trailing_sl)
C2_LowConfidence == args.runtime_confidence <= args.min_runtime_confidence
C8_IsCE == args.position_type \in {Some("CE"), Some("ce"), Some("Ce"), Some("cE")}
C8_IsPE == args.position_type \in {Some("PE"), Some("pe"), Some("Pe"), Some("pE")}
C8_Opposes ==
    \/ /\ C8_IsCE
       /\ args.prev_st_direction = Some(1)
       /\ args.st_direction = Some(-1)
    \/ /\ C8_IsPE
       /\ args.prev_st_direction = Some(-1)
       /\ args.st_direction = Some(1)
C2_EndOfDay ==
    /\ ~args.bypass_eod_exit
    /\ args.current_time_ist[1] * 60 + args.current_time_ist[2] >= 15 * 60 + 20

\* C2: with an open position the reason is that of the first rule that holds
\* in the order SL_HIT, TSL_HIT, CONFIDENCE_DROP, ST_REVERSAL, EOD_EXIT, and
\* should_exit is False exactly when no rule holds.
C2_ExitPriority ==
    pc = "done" /\ args.is_open_position =>
        /\ ret.reason =
              IF C2_HardStop THEN "SL_HIT"
              ELSE IF C2_TrailingStop THEN "TSL_HIT"
              ELSE IF C2_LowConfidence THEN "CONFIDENCE_DROP"
              ELSE IF C8_Opposes THEN "ST_REVERSAL"
              ELSE IF C2_EndOfDay THEN "EOD_EXIT"
              ELSE "None"
        /\ ret.should_exit =
              (C2_HardStop \/ C2_TrailingStop \/ C2_LowConfidence
               \/ C8_Opposes \/ C2_EndOfDay)

\* both stops would trigger, and every lower rule holds too: SL_HIT is returned
C2_Witness ==
    /\ pc = "done"
    /\ args.is_open_position
    /\ C2_HardStop /\ C2_TrailingStop /\ C2_LowConfidence
    /\ C8_Opposes /\ C2_EndOfDay
    /\ ret = ExitSignal(TRUE, "SL_HIT")

\* C8: ST_REVERSAL is returned only for a flip against the position: CE with
\* 1 -> -1, or PE with -1 -> 1.
C8_ReversalOnlyAgainstPosition ==
    pc = "done" /\ ret.reason = "ST_REVERSAL" => C8_Opposes

\* a CE position, the SuperTrend flips 1 -> -1, and ST_REVERSAL is returned
C8_Witness ==
    /\ pc = "done"
    /\ ret.reason = "ST_REVERSAL"
    /\ args.position_type = Some("CE")
    /\ args.prev_st_direction = Some(1)
    /\ args.st_direction = Some(-1)

(***************************************************************************)
(* EntryLogic (entry_logic_v2.py)                                          *)
(***************************************************************************)
\* MACD_HIST_MIN = 0.5
MACD_HIST_MIN == 50
\* min_entry_confidence: float = 65.0
DEFAULT_MIN_ENTRY_CONFIDENCE == 6500

EntryDecision(should_enter, direction, why) ==
    [should_enter |-> should_enter, direction |-> direction, reason |-> why]

\* the direction of a SuperTrend flip, "None" when it is not a valid flip
flip_direction(prev_st, st) ==
    IF prev_st = -1 /\ st = 1 THEN "BULLISH"
    ELSE IF prev_st = 1 /\ st = -1 THEN "BEARISH"
    ELSE "None"

\* momentum confirmation fails
macd_too_small_inclusive(h) == h = None \/ Abs(Val(h)) <= MACD_HIST_MIN
macd_too_small(h) == h = None \/ Abs(Val(h)) < MACD_HIST_MIN

\* the decision of the confidence gate when it fails
low_confidence_keeps_direction(direction) ==
    EntryDecision(FALSE, direction, "LOW_ENTRY_CONFIDENCE")
low_confidence(direction) == EntryDecision(FALSE, "None", "LOW_ENTRY_CONFIDENCE")

check_entry(a) ==
    IF ~a.market_regime_is_trending
        THEN EntryDecision(FALSE, "None", "SIDEWAYS_REGIME")
    ELSE IF a.prev_st_direction = None
        THEN EntryDecision(FALSE, "None", "NO_PREV_ST")
    ELSE IF a.st_direction = Val(a.prev_st_direction)
        THEN EntryDecision(FALSE, "None", "NO_ST_FLIP")
    ELSE LET direction == flip_direction(Val(a.prev_st_direction), a.st_direction) IN
    IF direction = "None"
        THEN EntryDecision(FALSE, "None", "INVALID_ST_FLIP")
    ELSE IF direction = "BULLISH" /\ ~(a.candle_close > a.supertrend_value)
        THEN EntryDecision(FALSE, "None", "PRICE_NOT_ABOVE_ST")
    ELSE IF direction = "BEARISH" /\ ~(a.candle_close < a.supertrend_value)
        THEN EntryDecision(FALSE, "None", "PRICE_NOT_BELOW_ST")
    ELSE IF macd_too_small(a.macd_histogram)
        THEN EntryDecision(FALSE, "None", "MACD_HIST_TOO_SMALL")
    ELSE IF a.entry_confidence < a.min_entry_confidence
        THEN low_confidence(direction)
    ELSE EntryDecision(TRUE, direction, "OK")

EntryConfidences == {0, 6490, 6500, 7000}

EntryArgs ==
    [market_regime_is_trending : BOOLEAN,
     st_direction : {-1, 0, 1},
     prev_st_direction : Opt({-1, 0, 1}),
     supertrend_value : {10000},
     candle_close : {9990, 10000, 10010},
     macd_histogram : Opt({-50, -49, 0, 49, 50, 120}),
     entry_confidence : EntryConfidences,
     min_entry_confidence : {DEFAULT_MIN_ENTRY_CONFIDENCE, 7000}]

EntryInit ==
    /\ pc = "call"
    /\ args \in EntryArgs
    /\ ret = None
    /\ prev = None
    /\ NoCooldown
    /\ NoPosition

CheckEntry ==
    /\ pc = "call"
    /\ pc' = "done"
    /\ ret' = check_entry(args)
    /\ UNCHANGED <<args, prev, cdVars, pos>>

\* the same call again with nothing but entry_confidence changed
CheckEntryOtherConfidence ==
    /\ pc = "done"
    /\ pc' = "rechecked"
    /\ \E c \in EntryConfidences \ {args.entry_confidence} :
          /\ args' = [args EXCEPT !.entry_confidence = c]
          /\ ret' = check_entry(args')
    /\ prev' = ret
    /\ UNCHANGED <<cdVars, pos>>

EntryNext == CheckEntry \/ CheckEntryOtherConfidence

SpecEntry == EntryInit /\ [][EntryNext]_vars

\* the seven gates as the claim states them
C3_Trending == args.market_regime_is_trending
C3_PrevKnown == args.prev_st_direction # None
C3_Flipped == args.st_direction # Val(args.prev_st_direction)
C3_Bullish == Val(args.prev_st_direction) = -1 /\ args.st_direction = 1
C3_Bearish == Val(args.prev_st_direction) = 1 /\ args.st_direction = -1
C3_PriceConfirms ==
    /\ C3_Bullish => args.candle_close > args.supertrend_value
    /\ C3_Bearish => args.candle_close < args.supertrend_value
C3_Momentum ==
    /\ args.macd_histogram # None
    /\ (Val(args.macd_histogram) >= 50 \/ Val(args.macd_histogram) <= -50)
C3_Confident == args.entry_confidence >= args.min_entry_confidence
C3_AllGatesPass ==
    /\ C3_Trending /\ C3_PrevKnown /\ C3_Flipped
    /\ (C3_Bullish \/ C3_Bearish)
    /\ C3_PriceConfirms /\ C3_Momentum /\ C3_Confident

\* C3: should_enter is True exactly when all seven gates pass, then with
\* reason OK and the flip's direction; otherwise the reason is that of the
\* first failing gate, in the gates' order.
C3_EntryGates ==
    pc \in {"done", "rechecked"} =>
        /\ ret.should_enter = C3_AllGatesPass
        /\ ret.reason =
              IF ~C3_Trending THEN "SIDEWAYS_REGIME"
              ELSE IF ~C3_PrevKnown THEN "NO_PREV_ST"
              ELSE IF ~C3_Flipped THEN "NO_ST_FLIP"
              ELSE IF ~(C3_Bullish \/ C3_Bearish) THEN "INVALID_ST_FLIP"
              ELSE IF ~C3_PriceConfirms
                   THEN (IF C3_Bullish THEN "PRICE_NOT_ABOVE_ST"
                                       ELSE "PRICE_NOT_BELOW_ST")
              ELSE IF ~C3_Momentum THEN "MACD_HIST_TOO_SMALL"
              ELSE IF ~C3_Confident THEN "LOW_ENTRY_CONFIDENCE"
              ELSE "OK"
        /\ (ret.should_enter =>
               ret.direction = IF C3_Bullish THEN "BULLISH" ELSE "BEARISH")

\* a bearish entry whose histogram sits exactly on the 0.5 gate
C3_Witness ==
    /\ pc = "done"
    /\ ret = EntryDecision(TRUE, "BEARISH", "OK")
    /\ args.macd_histogram = Some(-50)
    /\ args.entry_confidence = args.min_entry_confidence

\* C4 (as stated): from a passing input, lowering only entry_confidence
\* below the minimum gives should_enter False with LOW_ENTRY_CONFIDENCE and
\* leaves the decision's direction as it was.
C4_DirectionKept ==
    (/\ pc = "rechecked"
     /\ prev.should_enter
     /\ args.entry_confidence < args.min_entry_confidence)
    => /\ ~ret.should_enter
       /\ ret.reason = "LOW_ENTRY_CONFIDENCE"
       /\ ret.direction = prev.direction

\* C4 (amended): from a passing input, lowering only entry_confidence below
\* the minimum gives should_enter False with LOW_ENTRY_CONFIDENCE, and the
\* decision's direction is dropped (None) as in every other rejection.
C4_DirectionDropped ==
    (/\ pc = "rechecked"
     /\ prev.should_enter
     /\ args.entry_confidence < args.min_entry_confidence)
    => /\ ~ret.should_enter
       /\ ret.reason = "LOW_ENTRY_CONFIDENCE"
       /\ ret.direction = "None"
       /\ prev.direction \in {"BULLISH", "BEARISH"}

\* a passing bullish decision, then the same call at 64.9 < 65
C4_Witness ==
    /\ pc = "rechecked"
    /\ prev = EntryDecision(TRUE, "BULLISH", "OK")
    /\ args.entry_confidence = 6490
    /\ args.min_entry_confidence = 6500
    /\ ret.reason = "LOW_ENTRY_CONFIDENCE"

(***************************************************************************)
(* ConfidenceCalculator (confidence_v2.py)                                 *)
(***************************************************************************)
\* _ST_STRONG_THRESHOLD_PCT = 0.25, _BODY_STRONG_THRESHOLD_PCT = 60.0
ST_STRONG_THRESHOLD_PCT == 25
BODY_STRONG_THRESHOLD_PCT == 6000
VOL_EXPANSION_WINDOW == 14

\* max(0.0, min(100.0, x))
clamp_no_floor(x) == Min(10000, x)
clamp(x) == Max(0, Min(10000, x))

RECURSIVE sum(_)
sum(xs) == IF xs = <<>> THEN 0 ELSE Head(xs) + sum(Tail(xs))

\* ranges[-n:]
last_n(xs, n) == SubSeq(xs, Max(1, Len(xs) - n + 1), Len(xs))

st_strength(supertrend_distance_pct) ==
    IF supertrend_distance_pct > ST_STRONG_THRESHOLD_PCT THEN 3000 ELSE 0

\* body_pct >= 60 where body_pct is |close - open| / candle_range * 100 for a
\* positive candle_range and 0 otherwise
candle_body_strength(a) ==
    LET candle_range == a.candle_high - a.candle_low IN
    IF /\ candle_range > 0
       /\ Abs(a.candle_close - a.candle_open) * 10000
              >= BODY_STRONG_THRESHOLD_PCT * candle_range
    THEN 2000 ELSE 0

macd_momentum_top_tier_35(macd_histogram) ==
    IF macd_histogram = None THEN 0
    ELSE LET h == Abs(Val(macd_histogram)) IN
         IF h >= 150 THEN 3500
         ELSE IF h >= 100 THEN 2500
         ELSE IF h >= 75 THEN 2000
         ELSE IF h >= 50 THEN 1500
         ELSE 0
macd_momentum(macd_histogram) ==
    IF macd_histogram = None THEN 0
    ELSE LET h == Abs(Val(macd_histogram)) IN
         IF h >= 150 THEN 3000
         ELSE IF h >= 100 THEN 2500
         ELSE IF h >= 75 THEN 2000
         ELSE IF h >= 50 THEN 1500
         ELSE 0

\* avg_range = sum(window) / len(window); avg_range > 0 and
\* candle_range > avg_range, without the division
volatility_expansion(a) ==
    LET candle_range == a.candle_high - a.candle_low
        ranges == IF a.recent_ranges = None THEN <<>> ELSE Val(a.recent_ranges)
        window == last_n(ranges, VOL_EXPANSION_WINDOW)
    IN  IF /\ candle_range > 0
           /\ Len(ranges) >= 3
           /\ sum(window) > 0
           /\ candle_range * Len(window) > sum(window)
        THEN 2000 ELSE 0

calculate_entry_confidence(a) ==
    LET st == st_strength(a.supertrend_distance_pct)
        body == candle_body_strength(a)
        macd == macd_momentum(a.macd_histogram)
        vol == volatility_expansion(a)
    IN  [total |-> clamp(st + body + macd + vol),
         st_strength |-> st,
         candle_body_strength |-> body,
         macd_momentum |-> macd,
         volatility_expansion |-> vol]

EntryConfidenceArgs ==
    [supertrend_distance_pct : {0, 25, 26},
     candle_open : {1000, 1400},
     candle_high : {1000, 2000},
     candle_low : {1000, 2000},
     candle_close : {1000, 1600, 2000},
     macd_histogram : Opt({0, 49, 50, 74, 75, 99, 100, 149, 150, -150, -75}),
     recent_ranges : Opt({<<>>, <<500, 500>>, <<500, 500, 500>>,
                          <<1000, 1000, 1000>>, <<2500, 500, 500>>,
                          <<0, 0, 0>>, <<-500, -500, -500>>,
                          <<90000, 500, 500, 500, 500, 500, 500, 500,
                            500, 500, 500, 500, 500, 500, 500>>})]

EntryConfidenceInit ==
    /\ pc = "call"
    /\ args \in EntryConfidenceArgs
    /\ ret = None
    /\ prev = None
    /\ NoCooldown
    /\ NoPosition

CalculateEntryConfidence ==
    /\ pc = "call"
    /\ pc' = "done"
    /\ ret' = calculate_entry_confidence(args)
    /\ UNCHANGED <<args, prev, cdVars, pos>>

SpecEntryConfidence ==
    EntryConfidenceInit
    /\ [][CalculateEntryConfidence]_vars

\* C6: the total is within [0,100] and is the plain sum of the four
\* sub-scores, each of which takes one of its fixed values.
C6_TotalIsPlainSum ==
    pc = "done" =>
        /\ ret.total >= 0 /\ ret.total <= 10000
        /\ ret.total = ret.st_strength + ret.candle_body_strength
                       + ret.macd_momentum + ret.volatility_expansion
        /\ ret.st_strength \in {0, 3000}
        /\ ret.candle_body_strength \in {0, 2000}
        /\ ret.macd_momentum \in {0, 1500, 2000, 2500, 3000}
        /\ ret.volatility_expansion \in {0, 2000}

\* every factor at its maximum: the sum is exactly 100
C6_Witness ==
    /\ pc = "done"
    /\ ret.st_strength = 3000
    /\ ret.candle_body_strength = 2000
    /\ ret.macd_momentum = 3000
    /\ ret.volatility_expansion = 2000
    /\ ret.total = 10000

\* the reasons joined by "+"
RECURSIVE join(_)
join(tags) ==
    IF Len(tags) = 1 THEN tags[1] ELSE tags[1] \o "+" \o join(Tail(tags))

\* the decay after N candles
time_decay_reversed(candles_held, decay_after_candles) ==
    candles_held < decay_after_candles
time_decay(candles_held, decay_after_candles) ==
    candles_held > decay_after_candles

calculate_runtime_confidence(a) ==
    LET weak == a.candle_body_pct # None /\ Val(a.candle_body_pct) < 3000
        shrink == /\ a.macd_histogram # None
                  /\ a.prev_macd_histogram # None
                  /\ Abs(Val(a.macd_histogram)) < Abs(Val(a.prev_macd_histogram))
        decay == time_decay(a.candles_held, a.decay_after_candles)
        cont == a.candle_body_pct # None /\ Val(a.candle_body_pct) >= 6000
        conf == a.previous_confidence
                - (IF weak THEN 1000 ELSE 0)
                - (IF shrink THEN 1000 ELSE 0)
                - (IF decay THEN 500 ELSE 0)
                + (IF cont THEN 500 ELSE 0)
        reasons == (IF weak THEN <<"WEAK_BODY">> ELSE <<>>)
                   \o (IF shrink THEN <<"MACD_SHRINK">> ELSE <<>>)
                   \o (IF decay THEN <<"TIME_DECAY">> ELSE <<>>)
                   \o (IF cont THEN <<"CONTINUATION">> ELSE <<>>)
    IN  [confidence |-> clamp(conf),
         reason |-> IF reasons # <<>> THEN join(reasons) ELSE "NO_CHANGE"]

\* decay_after_candles: int = 10
DEFAULT_DECAY_AFTER_CANDLES == 10

RuntimeConfidenceArgs ==
    [previous_confidence : {0, 500, 1000, 2000, 2490, 4500, 9800, 10000},
     candle_body_pct : Opt({0, 2999, 3000, 5999, 6000}),
     macd_histogram : Opt({-100, 50, 100}),
     prev_macd_histogram : Opt({-100, 50}),
     candles_held : {0, 10, 11},
     decay_after_candles : {-1, DEFAULT_DECAY_AFTER_CANDLES}]

RuntimeConfidenceInit ==
    /\ pc = "call"
    /\ args \in RuntimeConfidenceArgs
    /\ ret = None
    /\ prev = None
    /\ NoCooldown
    /\ NoPosition

CalculateRuntimeConfidence ==
    /\ pc = "call"
    /\ pc' = "done"
    /\ ret' = calculate_runtime_confidence(args)
    /\ UNCHANGED <<args, prev, cdVars, pos>>

SpecRuntimeConfidence ==
    RuntimeConfidenceInit
    /\ [][CalculateRuntimeConfidence]_vars

\* the reason strings without CONTINUATION
C5_DecayOnlyReasons ==
    {"NO_CHANGE", "WEAK_BODY", "MACD_SHRINK", "TIME_DECAY",
     "WEAK_BODY+MACD_SHRINK", "WEAK_BODY+TIME_DECAY", "MACD_SHRINK+TIME_DECAY",
     "WEAK_BODY+MACD_SHRINK+TIME_DECAY"}

\* C5: the result is always within [0,100]; the reason carries no
\* CONTINUATION exactly when candle_body_pct is absent or below 60, and the
\* result is then no greater than previous_confidence.
C5_NonIncreasing ==
    pc = "done" =>
        /\ ret.confidence >= 0 /\ ret.confidence <= 10000
        /\ (ret.reason \in C5_DecayOnlyReasons)
              = (args.candle_body_pct = None \/ Val(args.candle_body_pct) < 6000)
        /\ (ret.reason \in C5_DecayOnlyReasons
               => ret.confidence <= args.previous_confidence)

\* all three decays stack on a confidence of 20: 20 - 25 clamps to 0
C5_Witness ==
    /\ pc = "done"
    /\ args.previous_confidence = 2000
    /\ ret.reason = "WEAK_BODY+MACD_SHRINK+TIME_DECAY"
    /\ ret.confidence = 0

(***************************************************************************)
(* MarketRegimeDetector (market_regime_v2.py)                              *)
(***************************************************************************)
\* DEFAULT_ST_DISTANCE_SIDEWAYS_THRESHOLD_PCT = 0.15, adx_threshold = 20.0
DEFAULT_ST_DISTANCE_SIDEWAYS_THRESHOLD_PCT == 15
DEFAULT_ADX_THRESHOLD == 2000

\* whether st_distance_pct is computed (not None)
st_distance_known(a) ==
    /\ a.current_price # None
    /\ Val(a.current_price) # 0
    /\ Val(a.current_price) > 0
    /\ a.supertrend_value # None

\* st_distance_pct = |price - supertrend| / price * 100 as the fraction
\* num / den, in hundredths of a percent
st_distance_pct(a) ==
    [num |-> Abs(Val(a.current_price) - Val(a.supertrend_value)) * 10000,
     den |-> Val(a.current_price)]

\* float(st_distance_pct) < threshold, on the fraction
distance_sideways_inclusive(d, threshold) == d.num <= threshold * d.den
distance_sideways(d, threshold) == d.num < threshold * d.den

\* self holds use_adx, adx_threshold and st_distance_sideways_threshold_pct
detect(self, a) ==
    LET known == st_distance_known(a)
        dist == IF known THEN Some(st_distance_pct(a)) ELSE None
    IN  IF self.use_adx /\ a.adx # None
        THEN [regime |-> IF Val(a.adx) < self.adx_threshold
                         THEN "SIDEWAYS" ELSE "TRENDING",
              method |-> "ADX",
              st_distance_pct |-> dist]
        ELSE [regime |-> IF dist = None THEN "SIDEWAYS"
                         ELSE IF distance_sideways(
                                     Val(dist),
                                     self.st_distance_sideways_threshold_pct)
                              THEN "SIDEWAYS"
                              ELSE "TRENDING",
              method |-> "ST_DISTANCE",
              st_distance_pct |-> dist]

RegimeDetectors ==
    [use_adx : BOOLEAN,
     adx_threshold : {DEFAULT_ADX_THRESHOLD, 2500},
     st_distance_sideways_threshold_pct :
         {DEFAULT_ST_DISTANCE_SIDEWAYS_THRESHOLD_PCT, 0, 20}]

RegimeArgs ==
    [self : RegimeDetectors,
     current_price : Opt({-10000, 0, 10000, 20000}),
     supertrend_value : Opt({9980, 9985, 9990, 10000, 10015}),
     adx : Opt({1999, 2000, 2500})]

RegimeInit ==
    /\ pc = "call"
    /\ args \in RegimeArgs
    /\ ret = None
    /\ prev = None
    /\ NoCooldown
    /\ NoPosition

Detect ==
    /\ pc = "call"
    /\ pc' = "done"
    /\ ret' = detect(args.self, args)
    /\ UNCHANGED <<args, prev, cdVars, pos>>

SpecRegime == RegimeInit /\ [][Detect]_vars

\* the claim's reading of the inputs of detect
C7_UsesADX == args.self.use_adx /\ args.adx # None
C7_DistanceComputable ==
    /\ args.current_price # None
    /\ Val(args.current_price) > 0
    /\ args.supertrend_value # None
\* |price - supertrend| / price * 100 >= threshold, for a positive price
C7_DistanceAtLeastThreshold ==
    LET p == Val(args.current_price)
        st == Val(args.supertrend_value)
    IN  (IF p >= st THEN p - st ELSE st - p) * 10000
            >= args.self.st_distance_sideways_threshold_pct * p

\* C7: with ADX enabled and supplied the regime is TRENDING iff
\* adx >= adx_threshold; otherwise it is TRENDING iff the distance is
\* computable and >= the threshold, so SIDEWAYS whenever it is not computable.
C7_Classification ==
    pc = "done" =>
        /\ ret.regime \in {"TRENDING", "SIDEWAYS"}
        /\ (ret.regime = "TRENDING") =
              IF C7_UsesADX
              THEN Val(args.adx) >= args.self.adx_threshold
              ELSE C7_DistanceComputable /\ C7_DistanceAtLeastThreshold

\* the distance method with the distance exactly on the default threshold
C7_Witness ==
    /\ pc = "done"
    /\ ~C7_UsesADX
    /\ args.current_price = Some(10000)
    /\ args.supertrend_value = Some(9985)
    /\ args.self.st_distance_sideways_threshold_pct = 15
    /\ ret.regime = "TRENDING"
    /\ ret.method = "ST_DISTANCE"

(***************************************************************************)
(* The per-candle loop for an open position: each candle increments        *)
(* candles_held, replaces the runtime confidence by                        *)
(* calculate_runtime_confidence of the previous one and calls check_exit   *)
(* with it; the loop ends with the first exit signal.                      *)
(***************************************************************************)
MaxDecayAfter == 3
\* candles the model lets a position live; without CONTINUATION a position
\* that starts at 100 is closed by candle decay_after_candles + 12
MaxCandles == MaxDecayAfter + 14

\* what the MACD feed delivers for a candle: <<macd, prev_macd>>
LoopMacd == {<<None, None>>, <<Some(50), Some(100)>>, <<Some(100), Some(50)>>}
\* what the market delivers for a candle, besides the candle itself
LoopMarket ==
    [current_option_ltp : {Some(9500), Some(11500)},
     hard_sl : Opt({10000}),
     st_direction : {Some(-1), Some(1)},
     current_time_ist : {<<10, 0>>, <<15, 20>>}]

LoopInit ==
    /\ pos \in [candles_held : {0},
                confidence : {0, 4000, 4001, 4500, 7000, 9999, 10000},
                decay_after_candles : -1 .. MaxDecayAfter,
                signal : {ExitSignal(FALSE, "None")},
                continuation : {FALSE}]
    /\ NoCooldown
    /\ NoCall

Candle ==
    /\ ~pos.signal.should_exit
    /\ pos.candles_held < MaxCandles
    /\ \E body \in Opt({1000, 4000, 7000}), macd \in LoopMacd, m \in LoopMarket :
          LET held == pos.candles_held + 1
              runtime == calculate_runtime_confidence(
                             [previous_confidence |-> pos.confidence,
                              candle_body_pct |-> body,
                              macd_histogram |-> macd[1],
                              prev_macd_histogram |-> macd[2],
                              candles_held |-> held,
                              decay_after_candles |-> pos.decay_after_candles])
              signal == check_exit(
                             [is_open_position |-> TRUE,
                              current_option_ltp |-> m.current_option_ltp,
                              hard_sl |-> m.hard_sl,
                              trailing_sl |-> None,
                              runtime_confidence |-> runtime.confidence,
                              min_runtime_confidence |->
                                  DEFAULT_MIN_RUNTIME_CONFIDENCE,
                              st_direction |-> m.st_direction,
                              prev_st_direction |-> Some(1),
                              position_type |-> Some("CE"),
                              current_time_ist |-> m.current_time_ist,
                              bypass_eod_exit |-> FALSE])
          IN  pos' = [pos EXCEPT
                        !.candles_held = held,
                        !.confidence = runtime.confidence,
                        !.signal = signal,
                        !.continuation =
                            pos.continuation
                            \/ (body # None /\ Val(body) >= 6000)]
    /\ UNCHANGED <<cdVars, callVars>>

\* every candle of the feed is processed
SpecLoop ==
    LoopInit /\ [][Candle]_vars /\ WF_vars(Candle)

\* C10: unless some candle has candle_body_pct >= 60, check_exit returns
\* should_exit = True after finitely many candles.
C10_EventuallyExits == <>(pos.continuation \/ pos.signal.should_exit)

\* the slowest exit: from 100, nothing but TIME_DECAY, closed by
\* CONFIDENCE_DROP on candle decay_after_candles + 12
C10_Witness ==
    /\ ~pos.continuation
    /\ pos.decay_after_candles = MaxDecayAfter
    /\ pos.candles_held = pos.decay_after_candles + 12
    /\ pos.signal = ExitSignal(TRUE, "CONFIDENCE_DROP")
    /\ pos.confidence = 4000

====
